---- MODULE Spec2Model ----
(***************************************************************************)
(* sysmon plugins: cpuinfo.py (cpu_usage, get_info, clean_cpu_model, main) *)
(* and meminfo.py (Meminfo.get_data, Meminfo.print_data).                  *)
(*                                                                         *)
(* Python strings are sequences of one-character strings, so that          *)
(* str.replace, str.split, str.join, str.strip and int() are modelled by   *)
(* what they do to the characters.                                         *)
(***************************************************************************)
EXTENDS Integers, Sequences, FiniteSets, TLC

VARIABLES
    \* ---- cpu_usage: the kernel counters, the snapshot file, the callers
    stat,        \* the ten tick counters behind the first line of /proc/stat
    exists,      \* os.path.exists(SAVE_DIR + "/cpu_old_data")
    content,     \* the characters of SAVE_DIR + "/cpu_old_data"
    pc,          \* per invocation: the file step it is about to take
    old_stats,   \* per invocation: the local old_stats (list of str)
    new_stats,   \* per invocation: the local new_stats (list of str)
    result,      \* per invocation: what cpu_usage returned, or the exception
    calls,       \* number of invocations started
    ticks,       \* number of counter increments so far
    last_curr,   \* history: new_stats of the latest call that returned
    raced,       \* history: two invocations have been mid-call at the same time
    intact,      \* history: content is exactly what one seed creation or save wrote
    load_ok,     \* history: per invocation, the content it loaded was intact
    \* ---- get_info / main: core counts
    probe,       \* sysmon_cpu_utils.so: absent, or the pair get_cores returns
    smt_active,  \* /sys/devices/system/cpu/smt/active reads "1"
    nproc,       \* os.sysconf(SC_NPROCESSORS_CONF)
    data_dict,   \* the module-level data_dict (core fields)
    info_pc,     \* "start", "loaded" (get_info ran), "shown" (main ran)
    shown_phys,  \* the cpu_cores_phys that main() formats, as <<num, den>>
    \* ---- clean_cpu_model
    model,       \* the argument
    cleaned,     \* the returned string
    clean_pc,    \* "start" or "done"
    \* ---- Meminfo
    meminfo,     \* /proc/meminfo, field -> kB
    show_swap,   \* util.SHOW_SWAP
    mem_pc,      \* "start", "got" (get_data ran), "printed" (print_data ran)
    mem_data,    \* what get_data returned or raised
    mem_out      \* what print_data returned or raised

cpu_vars == <<stat, exists, content, pc, old_stats, new_stats, result, calls,
              ticks, last_curr, raced, intact, load_ok>>
info_vars == <<probe, smt_active, nproc, data_dict, info_pc, shown_phys>>
clean_vars == <<model, cleaned, clean_pc>>
mem_vars == <<meminfo, show_swap, mem_pc, mem_data, mem_out>>
vars == <<cpu_vars, info_vars, clean_vars, mem_vars>>
not_cpu_vars == <<info_vars, clean_vars, mem_vars>>

----------------------------------------------------------------------------
\* Bounds of the model.

\* invocations of cpu_usage started in one behaviour
MaxCalls == 3
\* increments of the kernel counters in one behaviour
MaxTicks == 3
\* the same, where two processes interleave
MaxRaceCalls == 3
MaxRaceTicks == 2
\* largest core count the probe or the OS reports
MaxCores == 4
\* pieces concatenated into an argument of clean_cpu_model
MaxPieces == 2
\* largest /proc/meminfo value, in units of MemUnit kB
MaxMem == 3

----------------------------------------------------------------------------
\* Python str and int primitives on character sequences.

Digits == <<"0", "1", "2", "3", "4", "5", "6", "7", "8", "9">>
Whitespace == {" ", "\n", "\t"}

IsDigit(c) == \E d \in 1..10 : Digits[d] = c
DigitVal(c) == (CHOOSE d \in 1..10 : Digits[d] = c) - 1

\* s[i:i+len(pat)] == pat
StartsWithAt(s, i, pat) ==
    /\ i + Len(pat) - 1 <= Len(s)
    /\ SubSeq(s, i, i + Len(pat) - 1) = pat

\* str.replace(old, new): leftmost non-overlapping occurrences, old non-empty
RECURSIVE ReplaceFrom(_, _, _, _)
ReplaceFrom(s, i, old, new) ==
    IF i > Len(s) THEN <<>>
    ELSE IF StartsWithAt(s, i, old)
         THEN new \o ReplaceFrom(s, i + Len(old), old, new)
         ELSE <<s[i]>> \o ReplaceFrom(s, i + 1, old, new)

Replace(s, old, new) == ReplaceFrom(s, 1, old, new)

\* str.split(sep) for a one-character sep: empty fields are kept, "" gives [""]
RECURSIVE SplitFrom(_, _, _, _)
SplitFrom(s, i, sep, cur) ==
    IF i > Len(s) THEN <<cur>>
    ELSE IF s[i] = sep
         THEN <<cur>> \o SplitFrom(s, i + 1, sep, <<>>)
         ELSE SplitFrom(s, i + 1, sep, Append(cur, s[i]))

Split(s, sep) == SplitFrom(s, 1, sep, <<>>)

\* str.split(): runs of whitespace separate, no empty fields
RECURSIVE SplitWsFrom(_, _, _)
SplitWsFrom(s, i, cur) ==
    IF i > Len(s) THEN (IF cur = <<>> THEN <<>> ELSE <<cur>>)
    ELSE IF s[i] \in Whitespace
         THEN (IF cur = <<>> THEN <<>> ELSE <<cur>>) \o SplitWsFrom(s, i + 1, <<>>)
         ELSE SplitWsFrom(s, i + 1, Append(cur, s[i]))

SplitWs(s) == SplitWsFrom(s, 1, <<>>)

\* sep.join(parts)
RECURSIVE Join(_, _)
Join(sep, parts) ==
    IF parts = <<>> THEN <<>>
    ELSE IF Len(parts) = 1 THEN parts[1]
    ELSE parts[1] \o sep \o Join(sep, Tail(parts))

\* str.lstrip(chars), str.rstrip(chars), str.strip()
RECURSIVE LStrip(_, _)
LStrip(s, chars) ==
    IF s # <<>> /\ s[1] \in chars THEN LStrip(Tail(s), chars) ELSE s

RECURSIVE RStrip(_, _)
RStrip(s, chars) ==
    IF s # <<>> /\ s[Len(s)] \in chars
    THEN RStrip(SubSeq(s, 1, Len(s) - 1), chars) ELSE s

Strip(s) == RStrip(LStrip(s, Whitespace), Whitespace)

\* file.readline(): up to and including the first newline
RECURSIVE ReadlineFrom(_, _)
ReadlineFrom(s, i) ==
    IF i > Len(s) THEN s
    ELSE IF s[i] = "\n" THEN SubSeq(s, 1, i)
    ELSE ReadlineFrom(s, i + 1)

Readline(s) == ReadlineFrom(s, 1)

\* int(tok) succeeds: surrounding whitespace is ignored, then decimal digits
IsInt(tok) ==
    LET t == Strip(tok)
    IN  t # <<>> /\ \A i \in 1..Len(t) : IsDigit(t[i])

RECURSIVE DigitsVal(_)
DigitsVal(t) ==
    IF t = <<>> THEN 0
    ELSE 10 * DigitsVal(SubSeq(t, 1, Len(t) - 1)) + DigitVal(t[Len(t)])

\* int(tok), for a tok with IsInt(tok)
IntOf(tok) == DigitsVal(Strip(tok))

\* the kernel's decimal rendering of a counter
RECURSIVE ToStr(_)
ToStr(n) ==
    IF n < 10 THEN <<Digits[n + 1]>>
    ELSE ToStr(n \div 10) \o <<Digits[(n % 10) + 1]>>

RECURSIVE SumInts(_)
SumInts(toks) ==
    IF toks = <<>> THEN 0 ELSE IntOf(toks[1]) + SumInts(Tail(toks))

----------------------------------------------------------------------------
\* cpu_usage (cpuinfo.py 188-238) and the files it works on.

\* the invocations that may run against the same snapshot file
Procs == {"a", "b"}

\* the literal written when the snapshot file does not exist:
\* cpu.758102.17.259220.2395399.122421.3.1284
SEED ==
    <<"c","p","u",".","7","5","8","1","0","2",".","1","7",".",
      "2","5","9","2","2","0",".","2","3","9","5","3","9","9",".",
      "1","2","2","4","2","1",".","3",".","1","2","8","4">>

\* counters a machine may show when the first invocation runs
BootCounters == <<9, 0, 99, 250, 0, 0, 1, 0, 0, 0>>
SeedCounters == <<758102, 17, 259220, 2395399, 122421, 3, 1284, 0, 0, 0>>
Boots == {BootCounters, SeedCounters}

\* the counters the kernel advances in the model:
\* user, idle, softirq and guest
TickFields == {1, 4, 7, 9}
\* and where two processes interleave: user, whose 9 becomes 10
RaceTickFields == {1}

\* the first line of /proc/stat: "cpu  <user> <nice> ... <guest_nice>\n"
StatLine(counters) ==
    <<"c", "p", "u", " ", " ">>
        \o Join(<<" ">>, [i \in 1..Len(counters) |-> ToStr(counters[i])])
        \o <<"\n">>

\* new_stats = readline().replace("cpu ", "cpu").strip().split(" ")
ParseStat(line) ==
    Split(Strip(Replace(Readline(line), <<"c", "p", "u", " ">>, <<"c", "p", "u">>)), " ")

\* old_stats = old_stats.readline().split(".")
ParseSnapshot(data) == Split(Readline(data), ".")

\* variant: the fields joined with spaces
FormatSnapshotSpaces(toks) == Join(<<" ">>, toks)

\* ".".join(new_stats)
FormatSnapshot(toks) == Join(<<".">>, toks)

\* variant: the first five counters
FirstFiveIndices == <<1, 2, 3, 4, 5>>

\* the Python indices summed into previous_data and current_data
BusyIndices == <<1, 2, 3, 6, 7>>

\* the exception int(toks[i]) raises for the first failing index, or "ok"
RECURSIVE BusyError(_, _)
BusyError(toks, idx) ==
    IF idx = <<>> THEN "ok"
    ELSE IF idx[1] + 1 > Len(toks) THEN "IndexError"
    ELSE IF ~IsInt(toks[idx[1] + 1]) THEN "ValueError"
    ELSE BusyError(toks, Tail(idx))

RECURSIVE BusySum(_, _)
BusySum(toks, idx) ==
    IF idx = <<>> THEN 0
    ELSE IntOf(toks[idx[1] + 1]) + BusySum(toks, Tail(idx))

\* int(s[1]) + int(s[2]) + int(s[3]) + int(s[6]) + int(s[7])
Busy(toks) == BusySum(toks, BusyIndices)

\* sum(map(int, toks[1:])) raises ValueError
SumError(toks) ==
    IF \A i \in 2..Len(toks) : IsInt(toks[i]) THEN "ok" ELSE "ValueError"

\* variant: the slices start one field late
TotalFromSecond(old, new) == SumInts(Tail(Tail(old))) - SumInts(Tail(Tail(new)))

\* total = sum(map(int, old_stats[1:])) - sum(map(int, new_stats[1:]))
Total(old, new) == SumInts(Tail(old)) - SumInts(Tail(new))

Abs(n) == IF n < 0 THEN -n ELSE n

\* round(num / den) to the nearest integer, ties to even; num >= 0, den > 0
RoundHalfEven(num, den) ==
    LET q == num \div den
        r == num % den
    IN  IF 2 * r < den THEN q
        ELSE IF 2 * r > den THEN q + 1
        ELSE IF q % 2 = 0 THEN q ELSE q + 1

\* abs(round(100 * (delta / total), 1)), in tenths of a percent
Tenths(delta, total) == RoundHalfEven(1000 * Abs(delta), Abs(total))

NoResult == [t |-> "none", v |-> 0, e |-> "none"]
Raised(exc) == [t |-> "exc", v |-> 0, e |-> exc]

\* variant: ZeroDivisionError is not caught
UsageUnguarded(previous_data, current_data, total) ==
    IF total = 0 THEN Raised("ZeroDivisionError")
    ELSE [t |-> "str", v |-> Tenths(previous_data - current_data, total), e |-> "none"]

\* lines 224-230: the percentage string, or the int 0 on ZeroDivisionError
Usage(previous_data, current_data, total) ==
    IF total = 0 THEN [t |-> "int", v |-> 0, e |-> "none"]
    ELSE [t |-> "str", v |-> Tenths(previous_data - current_data, total), e |-> "none"]

\* an invocation is between its existence check and its return
MidCall(p) == pc[p] \notin {"idle", "done", "crashed"}

----------------------------------------------------------------------------
\* The steps of one invocation of cpu_usage. Each is one file operation of
\* the code, so that two invocations can interleave between them.

\* line 192: os.path.exists
Check(p, limit) ==
    /\ pc[p] = "idle"
    /\ calls < limit
    /\ calls' = calls + 1
    /\ pc' = [pc EXCEPT ![p] = IF exists THEN "load" ELSE "seed_open"]
    /\ raced' = (raced \/ \E q \in Procs \ {p} : MidCall(q))
    /\ old_stats' = [old_stats EXCEPT ![p] = <<>>]
    /\ new_stats' = [new_stats EXCEPT ![p] = <<>>]
    /\ result' = [result EXCEPT ![p] = NoResult]
    /\ load_ok' = [load_ok EXCEPT ![p] = TRUE]
    /\ UNCHANGED <<not_cpu_vars, stat, exists, content, ticks, last_curr, intact>>

\* line 193: open(..., "a") creates the file when it is missing
SeedOpen(p) ==
    /\ pc[p] = "seed_open"
    /\ pc' = [pc EXCEPT ![p] = "seed_write"]
    /\ exists' = TRUE
    /\ content' = (IF exists THEN content ELSE <<>>)
    /\ intact' = (IF exists THEN intact ELSE FALSE)
    /\ UNCHANGED <<not_cpu_vars, stat, old_stats, new_stats, result, calls, ticks, last_curr,
                   raced, load_ok>>

\* line 194 and the end of the with block: the seed is appended
SeedWrite(p) ==
    /\ pc[p] = "seed_write"
    /\ pc' = [pc EXCEPT ![p] = "load"]
    /\ content' = content \o SEED
    /\ intact' = (content' = SEED)
    /\ UNCHANGED <<not_cpu_vars, stat, exists, old_stats, new_stats, result, calls, ticks,
                   last_curr, raced, load_ok>>

\* lines 196-204: read the snapshot, split it, sum the busy fields
Load(p) ==
    /\ pc[p] = "load"
    /\ LET toks == ParseSnapshot(content)
           err == BusyError(toks, BusyIndices)
       IN  /\ old_stats' = [old_stats EXCEPT ![p] = toks]
           /\ pc' = [pc EXCEPT ![p] = IF err = "ok" THEN "read" ELSE "crashed"]
           /\ result' = [result EXCEPT ![p] =
                            IF err = "ok" THEN NoResult ELSE Raised(err)]
    /\ load_ok' = [load_ok EXCEPT ![p] = intact]
    /\ UNCHANGED <<not_cpu_vars, stat, exists, content, new_stats, calls, ticks, last_curr,
                   raced, intact>>

\* lines 206-219: read /proc/stat, sum the busy fields, compute total
ReadStat(p) ==
    /\ pc[p] = "read"
    /\ LET toks == ParseStat(StatLine(stat))
           err == IF BusyError(toks, BusyIndices) # "ok"
                  THEN BusyError(toks, BusyIndices)
                  ELSE IF SumError(old_stats[p]) # "ok" THEN SumError(old_stats[p])
                  ELSE SumError(toks)
       IN  /\ new_stats' = [new_stats EXCEPT ![p] = toks]
           /\ pc' = [pc EXCEPT ![p] = IF err = "ok" THEN "save_open" ELSE "crashed"]
           /\ result' = [result EXCEPT ![p] =
                            IF err = "ok" THEN NoResult ELSE Raised(err)]
    /\ UNCHANGED <<not_cpu_vars, stat, exists, content, old_stats, calls, ticks, last_curr,
                   raced, intact, load_ok>>

\* variant: the file is opened without truncation
NotTruncated(data) == data

\* the content after open(..., "w"): truncated
Truncated(data) == <<>>

\* line 221: open(..., "w")
SaveOpen(p) ==
    /\ pc[p] = "save_open"
    /\ pc' = [pc EXCEPT ![p] = "save_write"]
    /\ exists' = TRUE
    /\ content' = Truncated(content)
    /\ intact' = FALSE
    /\ UNCHANGED <<not_cpu_vars, stat, old_stats, new_stats, result, calls, ticks, last_curr,
                   raced, load_ok>>

\* the content after data is written at offset 0 of a file holding prior
Overlay(prior, data) ==
    IF Len(prior) <= Len(data) THEN data
    ELSE data \o SubSeq(prior, Len(data) + 1, Len(prior))

\* variant: new_stats[1:] is written
SavedWithoutName(toks) == FormatSnapshot(Tail(toks))

\* what line 222 writes
Saved(toks) == FormatSnapshot(toks)

\* line 222 and the end of the with block: the sample is written at offset 0
SaveWrite(p) ==
    /\ pc[p] = "save_write"
    /\ pc' = [pc EXCEPT ![p] = "return"]
    /\ content' = Overlay(content, Saved(new_stats[p]))
    /\ intact' = (content' = Saved(new_stats[p]))
    /\ UNCHANGED <<not_cpu_vars, stat, exists, old_stats, new_stats, result, calls, ticks,
                   last_curr, raced, load_ok>>

\* lines 224-230: the return value
Return(p) ==
    /\ pc[p] = "return"
    /\ pc' = [pc EXCEPT ![p] = "done"]
    /\ result' = [result EXCEPT ![p] =
                     Usage(Busy(old_stats[p]), Busy(new_stats[p]),
                           Total(old_stats[p], new_stats[p]))]
    /\ last_curr' = new_stats[p]
    /\ UNCHANGED <<not_cpu_vars, stat, exists, content, old_stats, new_stats, calls, ticks,
                   raced, intact, load_ok>>

\* the invocation is over (returned or died of the exception); its locals go
Exit(p) ==
    /\ pc[p] \in {"done", "crashed"}
    /\ pc' = [pc EXCEPT ![p] = "idle"]
    /\ old_stats' = [old_stats EXCEPT ![p] = <<>>]
    /\ new_stats' = [new_stats EXCEPT ![p] = <<>>]
    /\ result' = [result EXCEPT ![p] = NoResult]
    /\ load_ok' = [load_ok EXCEPT ![p] = TRUE]
    /\ UNCHANGED <<not_cpu_vars, stat, exists, content, calls, ticks, last_curr, raced, intact>>

\* the kernel advances one of its counters
Tick(i, limit) ==
    /\ ticks < limit
    /\ ticks' = ticks + 1
    /\ stat' = [stat EXCEPT ![i] = @ + 1]
    /\ UNCHANGED <<not_cpu_vars, exists, content, pc, old_stats, new_stats, result, calls,
                   last_curr, raced, intact, load_ok>>

CpuInit ==
    /\ stat \in Boots
    /\ exists = FALSE
    /\ content = <<>>
    /\ pc = [p \in Procs |-> "idle"]
    /\ old_stats = [p \in Procs |-> <<>>]
    /\ new_stats = [p \in Procs |-> <<>>]
    /\ result = [p \in Procs |-> NoResult]
    /\ calls = 0
    /\ ticks = 0
    /\ last_curr = <<>>
    /\ raced = FALSE
    /\ intact = FALSE
    /\ load_ok = [p \in Procs |-> TRUE]

----------------------------------------------------------------------------
\* get_info (cpuinfo.py 72-173) and main (271-314): the core counts.
\* The architecture, cache, frequency, model and temperature fields of
\* data_dict and of the output text are not part of this model.

NoProbe == [present |-> FALSE, phys |-> 0, logical |-> 0]

\* lines 99-105: the pair of the native probe is stored
ProbeAccepted(pr) ==
    /\ pr.present
    /\ pr.phys < pr.logical
    /\ pr.logical # 0
    /\ pr.phys # 0

\* lines 82-126 and 162-165
get_info ==
    /\ info_pc = "start"
    /\ info_pc' = "loaded"
    /\ LET phys == IF ProbeAccepted(probe) THEN probe.phys ELSE data_dict.cpu_cores_phys
           logical == IF ProbeAccepted(probe) THEN probe.logical
                      ELSE data_dict.cpu_cores_logical
       IN  data_dict' = [cpu_cores_phys |-> phys,
                         cpu_cores_logical |-> IF logical = 0 THEN nproc ELSE logical,
                         cpu_uses_smt |-> smt_active]
    /\ UNCHANGED <<probe, smt_active, nproc, shown_phys>>
    /\ UNCHANGED <<cpu_vars, clean_vars, mem_vars>>

\* lines 293-299: the physical count formatted into the text, as <<num, den>>
ShownPhys(d) ==
    LET stored == <<d.cpu_cores_phys, 1>>
        halved == IF d.cpu_uses_smt = TRUE THEN <<d.cpu_cores_logical, 2>> ELSE stored
    IN  IF d.cpu_cores_phys = 0
        THEN <<d.cpu_cores_logical, 1>>     \* line 299 overwrites halved
        ELSE stored

\* main, the "Cores:" field
main ==
    /\ info_pc = "loaded"
    /\ info_pc' = "shown"
    /\ shown_phys' = ShownPhys(data_dict)
    /\ UNCHANGED <<probe, smt_active, nproc, data_dict>>
    /\ UNCHANGED <<cpu_vars, clean_vars, mem_vars>>

\* line 37-46: data_dict as the module creates it
InfoStart ==
    /\ data_dict = [cpu_cores_phys |-> 0, cpu_cores_logical |-> 0, cpu_uses_smt |-> FALSE]
    /\ info_pc = "start"
    /\ shown_phys = <<0, 1>>

InfoIdle ==
    /\ probe = NoProbe
    /\ smt_active = FALSE
    /\ nproc = 1
    /\ InfoStart

InfoInit ==
    /\ probe \in {NoProbe} \cup
                 [present : {TRUE}, phys : 0..MaxCores, logical : 0..MaxCores]
    /\ smt_active \in BOOLEAN
    /\ nproc \in 1..MaxCores
    /\ InfoStart

----------------------------------------------------------------------------
\* clean_cpu_model (cpuinfo.py 49-69)

\* variant: the list without "CPU"
replace_stuff_without_cpu ==
    << <<"(","R",")">>,
       <<"(","T","M",")">>,
       <<"(","t","m",")">>,
       <<"P","r","o","c","e","s","s","o","r">>,
       <<"p","r","o","c","e","s","s","o","r">>,
       <<"\"","A","u","t","h","e","n","t","i","c","A","M","D","\"">>,
       <<"C","h","i","p"," ","R","e","v","i","s","i","o","n">>,
       <<"T","e","c","h","n","o","l","o","g","i","e","s",","," ","I","n","c">>,
       <<"w","i","t","h"," ","R","a","d","e","o","n"," ","H","D"," ","G","r","a","p","h","i","c","s">>,
       <<"w","i","t","h"," ","R","a","d","e","o","n"," ","G","r","a","p","h","i","c","s">> >>

\* lines 52-64
replace_stuff ==
    << <<"(","R",")">>,
       <<"(","T","M",")">>,
       <<"(","t","m",")">>,
       <<"P","r","o","c","e","s","s","o","r">>,
       <<"p","r","o","c","e","s","s","o","r">>,
       <<"\"","A","u","t","h","e","n","t","i","c","A","M","D","\"">>,
       <<"C","h","i","p"," ","R","e","v","i","s","i","o","n">>,
       <<"T","e","c","h","n","o","l","o","g","i","e","s",","," ","I","n","c">>,
       <<"C","P","U">>,
       <<"w","i","t","h"," ","R","a","d","e","o","n"," ","H","D"," ","G","r","a","p","h","i","c","s">>,
       <<"w","i","t","h"," ","R","a","d","e","o","n"," ","G","r","a","p","h","i","c","s">> >>

\* lines 66-67: model = model.replace(text, "") for each text in turn
RECURSIVE RemoveEach(_, _)
RemoveEach(s, texts) ==
    IF texts = <<>> THEN s
    ELSE RemoveEach(Replace(s, texts[1], <<>>), Tail(texts))

\* s.split("@", maxsplit=1)[0]: what precedes the first "@"
BeforeFirst(s, c) == Split(s, c)[1]

\* line 69
clean_cpu_model(m) ==
    RStrip(BeforeFirst(Join(<<" ">>, SplitWs(RemoveEach(m, replace_stuff))), "@"), {" "})

\* "Intel(R) Core(TM) i7-9700K CPU @ 3.60GHz"
ExampleModel ==
    <<"I","n","t","e","l","(","R",")"," ","C","o","r","e","(","T","M",")"," ","i","7","-","9","7","0","0","K"," ","C","P","U"," ","@"," ","3",".","6","0","G","H","z">>

\* the pieces the other arguments are made of
Pieces ==
    { <<"I","n","t","e","l">>,
      <<"(","R",")">>,
      <<" ">>,
      <<"C","o","r","e">>,
      <<"(","T","M",")">>,
      <<"C","P","U">>,
      <<"@">>,
      <<" "," ">>,
      <<"i","7","-","9","7","0","0","K">>,
      <<"(">>,
      <<"R",")">>,
      <<"A","M","D"," ","R","y","z","e","n"," ","5">>,
      <<" ","P","r","o","c","e","s","s","o","r">> }

RECURSIVE Concat(_)
Concat(parts) == IF parts = <<>> THEN <<>> ELSE parts[1] \o Concat(Tail(parts))

Models ==
    {ExampleModel} \cup
    {Concat(parts) : parts \in UNION {[1..k -> Pieces] : k \in 0..MaxPieces}}

Clean ==
    /\ clean_pc = "start"
    /\ clean_pc' = "done"
    /\ cleaned' = clean_cpu_model(model)
    /\ UNCHANGED model
    /\ UNCHANGED <<cpu_vars, info_vars, mem_vars>>

CleanIdle ==
    /\ model = <<>>
    /\ cleaned = <<>>
    /\ clean_pc = "start"

CleanInit ==
    /\ model \in Models
    /\ cleaned = <<>>
    /\ clean_pc = "start"

----------------------------------------------------------------------------
\* Meminfo.get_data and Meminfo.print_data (meminfo.py 62-229)

\* line 73: kB to bytes
KiB == 1024

MemFields ==
    {"MemTotal", "MemAvailable", "MemFree", "Cached", "SReclaimable", "Buffers",
     "SwapTotal", "SwapFree", "SwapCached"}

\* round((used / total) * 100, 1) in tenths; ZeroDivisionError when total is 0
DivZero(total) == total = 0
Percent(used, total) == RoundHalfEven(1000 * used, total)

MemRaised(exc) == [t |-> "exc", e |-> exc]

\* lines 72-152
get_data(mi) ==
    LET bytes == [f \in MemFields |-> mi[f] * KiB]
        phy_total == bytes["MemTotal"]
        phy_available == bytes["MemAvailable"]
        phy_free == bytes["MemFree"]
        phy_cached == bytes["Cached"] + bytes["Buffers"] + bytes["SReclaimable"]
        phy_actual_used == phy_total - phy_free - bytes["Buffers"]
                              - bytes["Cached"] - bytes["SReclaimable"]
        phy_used == phy_total - phy_available
        swap_total == bytes["SwapTotal"]
        swap_available == bytes["SwapFree"]
        swap_used == swap_total - swap_available
    IN  IF DivZero(phy_total) THEN MemRaised("ZeroDivisionError")         \* line 98
        ELSE IF DivZero(swap_total) THEN MemRaised("ZeroDivisionError")   \* line 110
        ELSE [t |-> "data", e |-> "none",
              physical |-> [total |-> phy_total, used |-> phy_used,
                            actual_used |-> phy_actual_used,
                            available |-> phy_available, free |-> phy_free,
                            cached |-> phy_cached,
                            pct_used |-> Percent(phy_used, phy_total),
                            pct_actual_used |-> Percent(phy_actual_used, phy_total),
                            pct_available |-> 1000 - Percent(phy_used, phy_total),
                            pct_free |-> Percent(phy_free, phy_total)],
              virtual |-> [total |-> swap_total, used |-> swap_used,
                           available |-> swap_available,
                           cached |-> bytes["SwapCached"],
                           pct_used |-> Percent(swap_used, swap_total),
                           pct_available |-> 1000 - Percent(swap_used, swap_total)]]

\* lines 161-229: the block returned, or the exception that leaves print_data
print_data(mi, swap_shown) ==
    LET data == get_data(mi)
    IN  IF data.t = "exc" THEN data                                       \* line 161
        ELSE IF data.virtual.total # 0 /\ swap_shown                      \* line 166
        THEN [t |-> "text", e |-> "none", block |-> "ram+swap",
              total |-> data.physical.total + data.virtual.total,
              used |-> data.physical.used + data.virtual.used,
              available |-> data.physical.available + data.virtual.available,
              used_perc |-> RoundHalfEven(
                  data.physical.pct_used + data.virtual.pct_used, 2),
              available_perc |-> RoundHalfEven(
                  data.physical.pct_available + data.virtual.pct_available, 2)]
        ELSE MemRaised("NameError")           \* line 222: memory_total is not defined

GetData ==
    /\ mem_pc = "start"
    /\ mem_pc' = "got"
    /\ mem_data' = get_data(meminfo)
    /\ UNCHANGED <<meminfo, show_swap, mem_out>>
    /\ UNCHANGED <<cpu_vars, info_vars, clean_vars>>

PrintData ==
    /\ mem_pc \in {"start", "got"}
    /\ mem_pc' = "printed"
    /\ mem_data' = get_data(meminfo)
    /\ mem_out' = print_data(meminfo, show_swap)
    /\ UNCHANGED <<meminfo, show_swap>>
    /\ UNCHANGED <<cpu_vars, info_vars, clean_vars>>

NoMemResult == [t |-> "none", e |-> "none"]

MemIdle ==
    /\ meminfo = [f \in MemFields |-> 0]
    /\ show_swap = TRUE
    /\ mem_pc = "start"
    /\ mem_data = NoMemResult
    /\ mem_out = NoMemResult

MemInit ==
    /\ \E total \in 1..MaxMem : \E available \in 0..total : \E free \in 0..available :
       \E cached \in 0..(available - free) :
       \E swap_total \in 0..MaxMem : \E swap_free \in 0..swap_total :
          meminfo = [f \in MemFields |->
                        CASE f = "MemTotal" -> total
                          [] f = "MemAvailable" -> available
                          [] f = "MemFree" -> free
                          [] f = "Cached" -> cached
                          [] f = "SwapTotal" -> swap_total
                          [] f = "SwapFree" -> swap_free
                          [] OTHER -> 0]
    /\ show_swap \in BOOLEAN
    /\ mem_pc = "start"
    /\ mem_data = NoMemResult
    /\ mem_out = NoMemResult

----------------------------------------------------------------------------
\* Specifications.

Init == CpuInit /\ InfoIdle /\ CleanIdle /\ MemIdle

\* cpu_usage calls run one after another, each to its end
Next ==
    \/ \E i \in TickFields : Tick(i, MaxTicks)
    \/ Check("a", MaxCalls)
    \/ SeedOpen("a")
    \/ SeedWrite("a")
    \/ Load("a")
    \/ ReadStat("a")
    \/ SaveOpen("a")
    \/ SaveWrite("a")
    \/ Return("a")
    \/ Exit("a")

Spec == Init /\ [][Next]_vars

\* two processes call cpu_usage and interleave at their file operations
RaceInit == Init /\ stat = BootCounters

RaceNext ==
    \/ \E i \in RaceTickFields : Tick(i, MaxRaceTicks)
    \/ \E p \in Procs : Check(p, MaxRaceCalls)
    \/ \E p \in Procs : SeedOpen(p)
    \/ \E p \in Procs : SeedWrite(p)
    \/ \E p \in Procs : Load(p)
    \/ \E p \in Procs : ReadStat(p)
    \/ \E p \in Procs : SaveOpen(p)
    \/ \E p \in Procs : SaveWrite(p)
    \/ \E p \in Procs : Return(p)
    \/ \E p \in Procs : Exit(p)

SpecRace == RaceInit /\ [][RaceNext]_vars

\* the snapshot file and the counters as they are before any call
CpuIdle == CpuInit /\ stat = BootCounters

\* get_info runs once when the module is loaded, then main
InfoSpecInit == CpuIdle /\ InfoInit /\ CleanIdle /\ MemIdle
InfoNext == get_info \/ main
SpecInfo == InfoSpecInit /\ [][InfoNext]_vars

\* clean_cpu_model applied to one argument
CleanSpecInit == CpuIdle /\ InfoIdle /\ CleanInit /\ MemIdle
CleanNext == Clean
SpecClean == CleanSpecInit /\ [][CleanNext]_vars

\* Meminfo.get_data and Meminfo.print_data on one /proc/meminfo
MemSpecInit == CpuIdle /\ InfoIdle /\ CleanIdle /\ MemInit
MemNext == GetData \/ PrintData
SpecMem == MemSpecInit /\ [][MemNext]_vars

----------------------------------------------------------------------------
\* Properties of cpu_usage.

Loaded(p) == pc[p] \in {"read", "save_open", "save_write", "return", "done"}

IntResult == [t |-> "int", v |-> 0, e |-> "none"]

\* C1: when total_delta is 0 the call returns the integer 0, and no call
\* run after another ends in an exception.
ZeroTotalReturnsZero ==
    \A p \in Procs :
        /\ pc[p] # "crashed"
        /\ result[p].t # "exc"
        /\ (pc[p] = "done" /\ Total(old_stats[p], new_stats[p]) = 0)
              => result[p] = IntResult

ZeroTotalReached ==
    \E p \in Procs :
        /\ pc[p] = "done"
        /\ Total(old_stats[p], new_stats[p]) = 0
        /\ Len(old_stats[p]) = 11
        /\ result[p] = IntResult

\* every counter of the current sample is at least the same counter of the
\* previous one (a saved sample of ten counters, or the seed of seven)
ValidPair(old, new) ==
    /\ Len(old) \in {8, 11}
    /\ Len(new) = 11
    /\ \A i \in 2..Len(old) : IntOf(new[i]) >= IntOf(old[i])

\* C2: for a valid pair of samples with total_delta # 0 the call returns a
\* percentage, in tenths, between 0 and 100.
UsageInRange ==
    \A p \in Procs :
        (/\ pc[p] = "done"
         /\ ValidPair(old_stats[p], new_stats[p])
         /\ Total(old_stats[p], new_stats[p]) # 0)
            => /\ result[p].t = "str"
               /\ result[p].v >= 0
               /\ result[p].v <= 1000

UsageInRangeReached ==
    \E p \in Procs :
        /\ pc[p] = "done"
        /\ ValidPair(old_stats[p], new_stats[p])
        /\ Len(old_stats[p]) = 8
        /\ Total(old_stats[p], new_stats[p]) = -3
        /\ result[p].t = "str"
        /\ result[p].v = 667

SeedValues == <<758102, 17, 259220, 2395399, 122421, 3, 1284>>

\* C3: the first call, made with no snapshot file, does not fail: it creates
\* the file holding the seed literal, loads the seed's seven counters as the
\* previous sample (busy = fields 1, 2, 3, 6, 7), and ends with the current
\* sample stored in the file.
FirstRunUsesSeed ==
    \A p \in Procs :
        calls = 1 =>
            /\ pc[p] # "crashed"
            /\ pc[p] = "load" => (exists /\ content = SEED)
            /\ Loaded(p) =>
                  /\ Len(old_stats[p]) = 8
                  /\ [i \in 1..7 |-> IntOf(old_stats[p][i + 1])] = SeedValues
                  /\ Busy(old_stats[p]) = 758102 + 17 + 259220 + 3 + 1284
            /\ pc[p] = "done" =>
                  /\ result[p].t \in {"str", "int"}
                  /\ Len(new_stats[p]) = 11
                  /\ content = Join(<<".">>, new_stats[p])

FirstRunDone ==
    \E p \in Procs :
        /\ calls = 1
        /\ pc[p] = "done"
        /\ ticks = 0
        /\ stat = BootCounters
        /\ result[p].t = "str"

\* C4: a sample saved to the snapshot file and split again gives the same
\* eleven fields (the name and ten counters), in order and with the values
\* /proc/stat showed.
SnapshotRoundTrip ==
    \A p \in Procs :
        pc[p] \in {"return", "done"} =>
            /\ ParseSnapshot(content) = new_stats[p]
            /\ Len(new_stats[p]) = 11
            /\ \A i \in 2..11 : IsInt(new_stats[p][i])
            /\ \A i \in 1..10 :
                  IntOf(ParseSnapshot(content)[i + 1]) \in (stat[i] - ticks)..stat[i]

SnapshotRoundTripReached ==
    \E p \in Procs :
        /\ pc[p] = "return"
        /\ ticks > 0
        /\ ParseSnapshot(content) = new_stats[p]
        /\ IntOf(new_stats[p][2]) = 10

\* C9: when a call returns, the file holds exactly the sample that call read
\* (also when it returns 0), and the next call loads that sample.
BaselineChaining ==
    \A p \in Procs :
        /\ pc[p] = "done" => (exists /\ content = FormatSnapshot(new_stats[p]))
        /\ (pc[p] \in {"read", "save_open", "save_write", "return"} /\ calls > 1)
              => old_stats[p] = last_curr

BaselineChainingReached ==
    \E p \in Procs :
        /\ pc[p] = "done"
        /\ calls = 3
        /\ result[p] = IntResult
        /\ content = FormatSnapshot(new_stats[p])

\* C10: an invocation loads content that is not exactly what one seed
\* creation or one save wrote only after two invocations have overlapped;
\* the witness is such a load, of the seed appended twice.
CorruptLoadOnlyAfterRace ==
    \A p \in Procs : ~load_ok[p] => raced

CorruptLoadReached ==
    \E p \in Procs :
        /\ ~load_ok[p]
        /\ old_stats[p] = ParseSnapshot(SEED \o SEED)
        /\ pc[p] = "crashed"
        /\ result[p] = Raised("ValueError")

----------------------------------------------------------------------------
\* Properties of get_info and main.

\* the formatted count <<num, den>> equals n / d
ShownIs(n, d) == shown_phys[1] * d = n * shown_phys[2]

\* C5: with the stored physical count unknown (0), main shows logical / 2
\* when SMT is active and the logical count otherwise.
PhysDerivedFromSmt ==
    (info_pc = "shown" /\ data_dict.cpu_cores_phys = 0) =>
        IF data_dict.cpu_uses_smt
        THEN ShownIs(data_dict.cpu_cores_logical, 2)
        ELSE ShownIs(data_dict.cpu_cores_logical, 1)

\* the pair of the probe is not inconsistent
ProbeConsistent(pr) ==
    pr.present /\ pr.phys > 0 /\ pr.logical > 0 /\ pr.phys <= pr.logical

\* C6: a probe pair that is not inconsistent (physical = logical included) is
\* the pair get_info stores.
ProbePairStored ==
    (info_pc # "start" /\ ProbeConsistent(probe)) =>
        /\ data_dict.cpu_cores_phys = probe.phys
        /\ data_dict.cpu_cores_logical = probe.logical

----------------------------------------------------------------------------
\* Properties of clean_cpu_model.

IntelCore == <<"I","n","t","e","l"," ","C","o","r","e"," ","i","7","-","9","7","0","0","K">>
IntelOnly == <<"I","n","t","e","l"," ","i","7","-","9","7","0","0","K">>

\* C7, as claimed: the example model is cleaned to "Intel i7-9700K".
CleanExampleAsClaimed ==
    (clean_pc = "done" /\ model = ExampleModel) => cleaned = IntelOnly

\* C7, amended: the example model is cleaned to "Intel Core i7-9700K"
\* ("Core" is not a listed token); every result has no "@", no whitespace
\* other than single spaces between words, and none at either end.
CleanResult ==
    clean_pc = "done" =>
        /\ model = ExampleModel => cleaned = IntelCore
        /\ \A i \in 1..Len(cleaned) : cleaned[i] \notin {"@", "\n", "\t"}
        /\ \A i \in 1..(Len(cleaned) - 1) : ~(cleaned[i] = " " /\ cleaned[i + 1] = " ")
        /\ cleaned # <<>> => (cleaned[1] # " " /\ cleaned[Len(cleaned)] # " ")

CleanExampleReached ==
    clean_pc = "done" /\ model = ExampleModel /\ cleaned = IntelCore

----------------------------------------------------------------------------
\* Properties of Meminfo.

\* C8: with SwapTotal = 0, get_data returns data whose swap used percentage
\* is 0, and print_data returns the RAM-only block.
SwaplessGuarded ==
    (mem_pc # "start" /\ meminfo["SwapTotal"] = 0) =>
        /\ mem_data.t = "data"
        /\ mem_data.virtual.pct_used = 0
        /\ mem_pc = "printed" => mem_out.t = "text"

====
